---- MODULE Spec2Model ----
(***************************************************************************)
(* A model of the ECS runtime of src/src/ecs/engine.ts: class Engine       *)
(* (entities, entity listeners, systems, the sort-needed flag, blueprints) *)
(* and class System (priority, attached engines).                          *)
(*                                                                         *)
(* Every method is a pure operator from a heap h (a record holding the     *)
(* fields of all Engine and System objects) to the heap after the call,    *)
(* written statement by statement after the source.  Arrays are TLA+       *)
(* sequences; indices passed around are JavaScript's (0-based, -1 for      *)
(* "not found").  An action applies one method to the current heap.        *)
(***************************************************************************)
EXTENDS Integers, Sequences, FiniteSets, TLC

(* ---- bounds of the model ---- *)
NumEngines == 2
NumSystems == 2
NumEntities == 2
NumListeners == 3
NumBlueprints == 2
MaxPriority == 1
MaxBatch == 2

Engines == 1..NumEngines
Systems == 1..NumSystems
Entities == 1..NumEntities
Listeners == 1..NumListeners
Blueprints == 1..NumBlueprints
Priorities == -1..MaxPriority

\* the one Engine of the host application
AppEngine == CHOOSE e \in Engines : TRUE

\* an Entity, a listener and a Blueprint of the application
AnEntity == CHOOSE n \in Entities : TRUE
AListener == CHOOSE l \in Listeners : TRUE
ABlueprint == CHOOSE b \in Blueprints : TRUE

VARIABLES
  _entities,            \* Engine._entities           : [Engines -> Seq(Entities)]
  _entityListeners,     \* Engine._entityListeners    : [Engines -> Seq(Listeners)]
  _systems,             \* Engine._systems            : [Engines -> Seq(Systems)]
  _systemsNeedSorting,  \* Engine._systemsNeedSorting : [Engines -> BOOLEAN]
  _priority,            \* System._priority           : [Systems -> Int]
  _engines,             \* System._engines            : [Systems -> Seq(Engines)]
  calls,                \* callbacks invoked by the current/last top-level call
  lastOp,               \* the current/last top-level call and its arguments
  tick,                 \* position of Engine.update's loop over _systems
  since,                \* history: the engines that had, since their last
                        \* update began, a priority write to one of their
                        \* systems (written) or an add/removeSystem (changed)
  snapshot,             \* the last value returned by the `entities` getter
  heard,                \* history: what one listener has been told so far
  _blueprints,          \* Engine._blueprints    : [Engines -> Seq(Blueprints)]
  blueprintTypes,       \* Engine.blueprintTypes : [Engines -> object | undefined]
  entityFactory,        \* Engine.entityFactory  : [Engines -> factory | undefined]
  result                \* outcome of the last buildEntity call

blueprintVars == <<_blueprints, blueprintTypes, entityFactory, result>>

vars == <<_entities, _entityListeners, _systems, _systemsNeedSorting,
          _priority, _engines, calls, lastOp, tick, since, snapshot, heard,
          _blueprints, blueprintTypes, entityFactory, result>>

(* ---- JavaScript array primitives ---- *)

Range(seq) == {seq[i] : i \in 1..Len(seq)}

\* Array.prototype.indexOf: 0-based index of the first occurrence, -1 if none.
indexOf(arr, x) ==
  IF \E i \in 1..Len(arr) : arr[i] = x
  THEN (CHOOSE i \in 1..Len(arr) : arr[i] = x /\ \A j \in 1..(i-1) : arr[j] # x) - 1
  ELSE -1

\* Array.prototype.push
push(arr, x) == Append(arr, x)

\* Array.prototype.splice(start, 1): a negative start counts from the end.
splice1(arr, start) ==
  LET from == IF start < 0
              THEN (IF Len(arr) + start < 0 THEN 0 ELSE Len(arr) + start)
              ELSE start
  IN  IF from >= Len(arr) THEN arr
      ELSE [i \in 1..(Len(arr) - 1) |-> IF i <= from THEN arr[i] ELSE arr[i + 1]]

\* the insertion placing x before the elements it compares equal to
insertSorted_BeforeEquals(sorted, x, prio) ==
  LET RECURSIVE ins(_)
      ins(rest) ==
        IF rest = <<>> THEN <<x>>
        ELSE IF prio[Head(rest)] - prio[x] >= 0
             THEN <<x>> \o rest
             ELSE <<Head(rest)>> \o ins(Tail(rest))
  IN  ins(sorted)

\* Insertion of x into a list sorted by cmp(a, b) = prio[a] - prio[b], after
\* every element that does not compare greater (a stable insertion).
RECURSIVE insertSorted(_, _, _)
insertSorted(sorted, x, prio) ==
  IF sorted = <<>> THEN <<x>>
  ELSE IF prio[Head(sorted)] - prio[x] > 0
       THEN <<x>> \o sorted
       ELSE <<Head(sorted)>> \o insertSorted(Tail(sorted), x, prio)

\* sort with the comparator's operands swapped: (a, b) => b.priority - a.priority
sortDescending(arr, prio) ==
  LET RECURSIVE ins(_, _)
      ins(sorted, x) ==
        IF sorted = <<>> THEN <<x>>
        ELSE IF prio[x] - prio[Head(sorted)] > 0
             THEN <<x>> \o sorted
             ELSE <<Head(sorted)>> \o ins(Tail(sorted), x)
      RECURSIVE from(_, _)
      from(rest, acc) ==
        IF rest = <<>> THEN acc ELSE from(Tail(rest), ins(acc, Head(rest)))
  IN  from(arr, <<>>)

\* Array.prototype.sort((a, b) => a.priority - b.priority)
RECURSIVE sortFrom(_, _, _)
sortFrom(arr, acc, prio) ==
  IF arr = <<>> THEN acc
  ELSE sortFrom(Tail(arr), insertSorted(acc, Head(arr), prio), prio)

sort(arr, prio) == sortFrom(arr, <<>>, prio)

(* ---- the heap ---- *)

Heap ==
  [ _entities |-> _entities, _entityListeners |-> _entityListeners,
    _systems |-> _systems, _systemsNeedSorting |-> _systemsNeedSorting,
    _priority |-> _priority, _engines |-> _engines, calls |-> calls ]

\* The callback fn of object obj is invoked with argument arg.
called(h, fn, obj, arg) ==
  [h EXCEPT !.calls = Append(@, [fn |-> fn, obj |-> obj, arg |-> arg])]

(* ---- class System ---- *)

\* notifyPriorityChange sorting at once
notifyPriorityChange_SortNow(h, e, s) ==
  [h EXCEPT !._systemsNeedSorting[e] = TRUE,
            !._systems[e] = sort(@, h._priority)]

\* Engine.notifyPriorityChange(system)
notifyPriorityChange(h, e, s) ==
  [h EXCEPT !._systemsNeedSorting[e] = TRUE]

\* the setter's loop leaving after the first engine
notifyEngines_FirstOnly(h, s, i) ==
  IF i > Len(h._engines[s]) THEN h
  ELSE notifyPriorityChange(h, h._engines[s][i], s)

\* the loop of the priority setter over this._engines, from position i
RECURSIVE notifyEngines(_, _, _)
notifyEngines(h, s, i) ==
  IF i > Len(h._engines[s]) THEN h
  ELSE notifyEngines(notifyPriorityChange(h, h._engines[s][i], s), s, i + 1)

\* the setter storing the value without telling the engines
setPriority_Silent(h, s, value) ==
  [h EXCEPT !._priority[s] = value]

\* System: set priority(value)
setPriority(h, s, value) ==
  notifyEngines([h EXCEPT !._priority[s] = value], s, 1)

\* System.onAttach(engine)
onAttach(h, s, e) ==
  LET index == indexOf(h._engines[s], e)
  IN  IF index = -1 THEN [h EXCEPT !._engines[s] = push(@, e)] ELSE h

\* System.onDetach(engine)
onDetach(h, s, e) ==
  LET index == indexOf(h._engines[s], e)
  IN  IF index # -1 THEN [h EXCEPT !._engines[s] = splice1(@, index)] ELSE h

(* ---- class Engine: systems ---- *)

\* addSystem marking the list for sorting outside the `if`
addSystem_AlwaysFlag(h, e, s) ==
  LET index == indexOf(h._systems[e], s)
      h3 == IF index = -1
            THEN onAttach(called([h EXCEPT !._systems[e] = push(@, s)],
                                 "onAttach", s, e), s, e)
            ELSE h
  IN  [h3 EXCEPT !._systemsNeedSorting[e] = TRUE]

\* Engine.addSystem(system)
addSystem(h, e, s) ==
  LET index == indexOf(h._systems[e], s)
  IN  IF index = -1
      THEN LET h1 == [h EXCEPT !._systems[e] = push(@, s)]
               h2 == onAttach(called(h1, "onAttach", s, e), s, e)
           IN  [h2 EXCEPT !._systemsNeedSorting[e] = TRUE]
      ELSE h

\* removeSystem forgetting system.onDetach(this)
removeSystem_NoDetach(h, e, s) ==
  LET index == indexOf(h._systems[e], s)
  IN  IF index # -1 THEN [h EXCEPT !._systems[e] = splice1(@, index)] ELSE h

\* Engine.removeSystem(system)
removeSystem(h, e, s) ==
  LET index == indexOf(h._systems[e], s)
  IN  IF index # -1
      THEN LET h1 == [h EXCEPT !._systems[e] = splice1(@, index)]
           IN  onDetach(called(h1, "onDetach", s, e), s, e)
      ELSE h

\* Engine.addSystems(...systems)
RECURSIVE addSystems(_, _, _)
addSystems(h, e, ss) ==
  IF ss = <<>> THEN h ELSE addSystems(addSystem(h, e, Head(ss)), e, Tail(ss))

\* Engine.removeSystems(...systems)
RECURSIVE removeSystems(_, _, _)
removeSystems(h, e, ss) ==
  IF ss = <<>> THEN h ELSE removeSystems(removeSystem(h, e, Head(ss)), e, Tail(ss))

\* update clearing the flag without sorting
updateSort_ClearOnly(h, e) ==
  [h EXCEPT !._systemsNeedSorting[e] = FALSE]

\* Engine.update, the statements before the loop: the conditional sort.
updateSort(h, e) ==
  IF h._systemsNeedSorting[e]
  THEN [h EXCEPT !._systemsNeedSorting[e] = FALSE,
                 !._systems[e] = sort(@, h._priority)]
  ELSE h

(* ---- class Engine: entities and listeners ---- *)

\* the listener loop running from the last listener to the first
notifyListeners_Reverse(h, e, fn, entity, i) ==
  LET RECURSIVE down(_, _)
      down(g, k) ==
        IF k < i THEN g
        ELSE down(called(g, fn, g._entityListeners[e][k], entity), k - 1)
  IN  down(h, Len(h._entityListeners[e]))

\* the loop over this._entityListeners calling listener[fn](entity), from i
RECURSIVE notifyListeners(_, _, _, _, _)
notifyListeners(h, e, fn, entity, i) ==
  IF i > Len(h._entityListeners[e]) THEN h
  ELSE notifyListeners(called(h, fn, h._entityListeners[e][i], entity),
                       e, fn, entity, i + 1)

\* Engine.addEntityListener(listener)
addEntityListener(h, e, l) ==
  IF indexOf(h._entityListeners[e], l) = -1
  THEN [h EXCEPT !._entityListeners[e] = push(@, l)]
  ELSE h

\* removeEntityListener filling the hole with the last listener
removeEntityListener_SwapLast(h, e, l) ==
  LET index == indexOf(h._entityListeners[e], l)
      ls == h._entityListeners[e]
  IN  IF index # -1
      THEN [h EXCEPT !._entityListeners[e] =
              SubSeq([ls EXCEPT ![index + 1] = ls[Len(ls)]], 1, Len(ls) - 1)]
      ELSE h

\* Engine.removeEntityListener(listener)
removeEntityListener(h, e, l) ==
  LET index == indexOf(h._entityListeners[e], l)
  IN  IF index # -1
      THEN [h EXCEPT !._entityListeners[e] = splice1(@, index)]
      ELSE h

\* addEntity forgetting the listeners
addEntity_Silent(h, e, n) ==
  IF indexOf(h._entities[e], n) = -1
  THEN [h EXCEPT !._entities[e] = push(@, n)]
  ELSE h

\* addEntity without the indexOf test
addEntity_NoCheck(h, e, n) ==
  notifyListeners([h EXCEPT !._entities[e] = push(@, n)],
                  e, "onEntityAdded", n, 1)

\* Engine.addEntity(entity)
addEntity(h, e, n) ==
  IF indexOf(h._entities[e], n) = -1
  THEN notifyListeners([h EXCEPT !._entities[e] = push(@, n)],
                       e, "onEntityAdded", n, 1)
  ELSE h

\* removeEntity without the `index !== -1` test: splice(-1, 1) drops the
\* last element
removeEntity_NoGuard(h, e, n) ==
  LET index == indexOf(h._entities[e], n)
  IN  notifyListeners([h EXCEPT !._entities[e] = splice1(@, index)],
                      e, "onEntityRemoved", n, 1)

\* Engine.removeEntity(entity)
removeEntity(h, e, n) ==
  LET index == indexOf(h._entities[e], n)
  IN  IF index # -1
      THEN notifyListeners([h EXCEPT !._entities[e] = splice1(@, index)],
                           e, "onEntityRemoved", n, 1)
      ELSE h

\* Engine.addEntities(...entities)
RECURSIVE addEntities(_, _, _)
addEntities(h, e, ns) ==
  IF ns = <<>> THEN h ELSE addEntities(addEntity(h, e, Head(ns)), e, Tail(ns))

\* Engine.removeEntities(...entities)
RECURSIVE removeEntities(_, _, _)
removeEntities(h, e, ns) ==
  IF ns = <<>> THEN h ELSE removeEntities(removeEntity(h, e, Head(ns)), e, Tail(ns))

(* ---- what a System's update does (System.update is abstract) ---- *)

\* A concrete System's update(engine, delta) makes at most one call on the
\* engine it is given or writes one priority.
Behaviours ==
  {[kind |-> "none"]}
  \cup [kind : {"addSystem", "removeSystem"}, system : Systems]
  \cup [kind : {"setPriority"}, system : Systems, value : Priorities]

\* ... or adds or removes one Entity.
EntityBehaviours == [kind : {"addEntity", "removeEntity"}, entity : Entities]

\* an update whose call on the engine is put off instead of made
systemUpdate_Deferred(h, e, s, b) == h

\* System.update(engine, delta) of system s behaving as b
systemUpdate(h, e, s, b) ==
  CASE b.kind = "none" -> h
    [] b.kind = "addSystem" -> addSystem(h, e, b.system)
    [] b.kind = "removeSystem" -> removeSystem(h, e, b.system)
    [] b.kind = "setPriority" -> setPriority(h, b.system, b.value)
    [] b.kind = "addEntity" -> addEntity(h, e, b.entity)
    [] b.kind = "removeEntity" -> removeEntity(h, e, b.entity)

(* ---- class Engine: the entities getter ---- *)

\* the getter returning this._entities itself
entities_Alias(h, e) == [alias |-> TRUE, engine |-> e, elems |-> h._entities[e]]

\* get entities(): Object.freeze(this._entities.slice(0)), a fresh array
\* holding the elements of _entities at the time of the call.  A returned
\* array is either such a copy (alias = FALSE) or the engine's own array.
entities(h, e) == [alias |-> FALSE, engine |-> e, elems |-> h._entities[e]]

\* what a holder of the returned array r sees in it when the heap is h
contents(h, r) == IF r.alias THEN h._entities[r.engine] ELSE r.elems

\* what a System's update can read of the engine it is given and of the
\* Systems: engine.entities, system.priority and system.engines
observe(h, e) ==
  [entities |-> Range(contents(h, entities(h, e))),
   priority |-> h._priority,
   attached |-> {s \in Systems : indexOf(h._engines[s], e) # -1}]

(* ---- JavaScript values and property lookup ---- *)

Undefined == [t |-> "undefined"]
Num(n) == [t |-> "number", v |-> n]
Str(s) == [t |-> "string", v |-> s]
Fn(f) == [t |-> "function", v |-> f]

\* ToBoolean, as applied by `!x` and `x ? a : b`
truthy(x) ==
  /\ x.t # "undefined"
  /\ ~(x.t = "number" /\ x.v = 0)
  /\ ~(x.t = "string" /\ x.v = "")

\* properties every plain object inherits from Object.prototype
ObjectPrototype ==
  ("constructor" :> Fn("Object")) @@ ("toString" :> Fn("toString"))

\* obj[key]: the own property, else the inherited one, else undefined
get(obj, key) ==
  IF key \in DOMAIN obj.own THEN obj.own[key]
  ELSE IF key \in DOMAIN ObjectPrototype THEN ObjectPrototype[key]
  ELSE Undefined

\* the object of `enum BlueprintType { Renderable, Player }`
NumericEnum ==
  [t |-> "object",
   own |-> ("Renderable" :> Num(0)) @@ ("Player" :> Num(1))
           @@ ("0" :> Str("Renderable")) @@ ("1" :> Str("Player"))]

\* the object of `enum BlueprintType { Renderable = "Renderable", ... }`
StringEnum ==
  [t |-> "object",
   own |-> ("Renderable" :> Str("Renderable")) @@ ("Player" :> Str("Player"))]

\* the blueprintTypes argument of the constructor
Enumerations == {NumericEnum, StringEnum}

\* the keys passed to buildEntity
Keys == {"Renderable", "Player", "0", "nonexistent", "constructor"}

(* ---- class Engine: blueprints ---- *)

\* Engine.addBlueprint(blueprint), on the array this._blueprints
addBlueprint(arr, b) ==
  IF indexOf(arr, b) = -1 THEN push(arr, b) ELSE arr

\* Engine.addBlueprints(...blueprints)
RECURSIVE addBlueprints(_, _)
addBlueprints(arr, bs) ==
  IF bs = <<>> THEN arr ELSE addBlueprints(addBlueprint(arr, Head(bs)), Tail(bs))

\* new EntityFactory(blueprints, components), called with a reference to
\* engine e's array whose elements are arr at the time of the call: the
\* factory is a view over the Blueprints registered up to that point
EntityFactory(e, arr) == [t |-> "object", blueprintsOf |-> e, registry |-> arr]

\* the blueprint collection a factory resolves from
resolvesFrom(factory) == factory.registry

\* start constructing the factory over no Blueprint at all
start_Empty(bps, e) == EntityFactory(e, <<>>)

\* Engine.start(): the factory is constructed with this._blueprints
start(bps, e) == EntityFactory(e, bps[e])

\* this.entityFactory.buildEntity(<string>type): a TypeError while
\* entityFactory is undefined, else the call is made with `type`
delegate(factory, type) ==
  IF factory = Undefined
  THEN [kind |-> "throw", error |-> "TypeError"]
  ELSE [kind |-> "delegated", type |-> type]

\* Engine.buildEntity(type)
buildEntity(types, factory, key) ==
  IF truthy(types)
  THEN IF ~truthy(get(types, key))
       THEN [kind |-> "throw", error |-> "Invalid blueprint type", key |-> key]
       ELSE delegate(factory, get(types, key))
  ELSE delegate(factory, Str(key))

(* ---- actions ---- *)

\* argument lists of the batch methods
Batches(S) == UNION {[1..k -> S] : k \in 0..MaxBatch}

\* the engines that hold system s in their system list
Holders(s) == {e \in Engines : s \in Range(_systems[e])}

\* what the call b amounts to, on an observation x of the engine
effect(x, b) ==
  CASE b.kind = "addEntity" -> [x EXCEPT !.entities = @ \cup {b.entity}]
    [] b.kind = "removeEntity" -> [x EXCEPT !.entities = @ \ {b.entity}]
    [] b.kind = "addSystem" -> [x EXCEPT !.attached = @ \cup {b.system}]
    [] b.kind = "removeSystem" -> [x EXCEPT !.attached = @ \ {b.system}]
    [] b.kind = "setPriority" -> [x EXCEPT !.priority[b.system] = b.value]
    [] OTHER -> x

\* nothing is recorded for a listener that is not being followed
Deaf == [tracked |-> FALSE, live |-> {}, ok |-> TRUE]

\* The history of AListener on AppEngine, followed from a registration on
\* the Engine while it holds no Entity until it is deregistered: live is
\* the set of Entities it was told were added and not since told were
\* removed; ok says that it was never told of the addition of an Entity in
\* live nor of the removal of one outside it.  hear takes the callbacks cs
\* into account.
RECURSIVE hear(_, _)
hear(hd, cs) ==
  IF cs = <<>> \/ ~hd.tracked THEN hd
  ELSE LET c == Head(cs)
       IN  IF c.fn = "onEntityAdded" /\ c.obj = AListener
           THEN hear([hd EXCEPT !.ok = @ /\ c.arg \notin hd.live,
                                !.live = @ \cup {c.arg}], Tail(cs))
           ELSE IF c.fn = "onEntityRemoved" /\ c.obj = AListener
           THEN hear([hd EXCEPT !.ok = @ /\ c.arg \in hd.live,
                                !.live = @ \ {c.arg}], Tail(cs))
           ELSE hear(hd, Tail(cs))

\* the callbacks made by this step, from position `from` of the log on
Heard(from) == heard' = hear(heard, SubSeq(calls', from, Len(calls')))

IdleTick == [pc |-> "idle"]

\* the heap when a top-level call starts: no callback invoked yet
Fresh == [Heap EXCEPT !.calls = <<>>]

SetHeap(h) ==
  /\ _entities' = h._entities
  /\ _entityListeners' = h._entityListeners
  /\ _systems' = h._systems
  /\ _systemsNeedSorting' = h._systemsNeedSorting
  /\ _priority' = h._priority
  /\ _engines' = h._engines
  /\ calls' = h.calls

\* the fields after the constructors, apart from blueprintTypes
Constructed ==
  /\ _entities = [e \in Engines |-> <<>>]
  /\ _entityListeners = [e \in Engines |-> <<>>]
  /\ _systems = [e \in Engines |-> <<>>]
  /\ _systemsNeedSorting = [e \in Engines |-> FALSE]
  /\ _priority = [s \in Systems |-> 0]
  /\ _engines = [s \in Systems |-> <<>>]
  /\ _blueprints = [e \in Engines |-> <<>>]
  /\ entityFactory = [e \in Engines |-> Undefined]
  /\ calls = <<>>
  /\ lastOp = [name |-> "new"]
  /\ tick = IdleTick
  /\ since = [written |-> {}, changed |-> {}]
  /\ snapshot = [read |-> FALSE]
  /\ heard = Deaf
  /\ result = [kind |-> "none"]

\* new Engine(components): no enumeration given
Init ==
  /\ Constructed
  /\ blueprintTypes = [e \in Engines |-> Undefined]

\* new Engine(components, blueprintTypes?) for the application's engine
InitBlueprints ==
  /\ Constructed
  /\ \E types \in Enumerations \cup {Undefined} :
       blueprintTypes = [e \in Engines |-> IF e = AppEngine THEN types ELSE Undefined]

AddSystem(e, s) ==
  /\ tick.pc = "idle"
  /\ SetHeap(addSystem(Fresh, e, s))
  /\ lastOp' = [name |-> "addSystem", engine |-> e, system |-> s,
                present |-> s \in Range(_systems[e])]
  /\ since' = [since EXCEPT !.changed = @ \cup {e}]
  /\ UNCHANGED <<tick, snapshot, blueprintVars>>
  /\ Heard(1)

RemoveSystem(e, s) ==
  /\ tick.pc = "idle"
  /\ SetHeap(removeSystem(Fresh, e, s))
  /\ lastOp' = [name |-> "removeSystem", engine |-> e, system |-> s,
                present |-> s \in Range(_systems[e])]
  /\ since' = [since EXCEPT !.changed = @ \cup {e}]
  /\ UNCHANGED <<tick, snapshot, blueprintVars>>
  /\ Heard(1)

AddSystems(e, ss) ==
  /\ tick.pc = "idle"
  /\ SetHeap(addSystems(Fresh, e, ss))
  /\ lastOp' = [name |-> "addSystems", engine |-> e, systems |-> ss]
  /\ since' = [since EXCEPT !.changed = @ \cup {e}]
  /\ UNCHANGED <<tick, snapshot, blueprintVars>>
  /\ Heard(1)

RemoveSystems(e, ss) ==
  /\ tick.pc = "idle"
  /\ SetHeap(removeSystems(Fresh, e, ss))
  /\ lastOp' = [name |-> "removeSystems", engine |-> e, systems |-> ss]
  /\ since' = [since EXCEPT !.changed = @ \cup {e}]
  /\ UNCHANGED <<tick, snapshot, blueprintVars>>
  /\ Heard(1)

\* system.priority = v
SetPriority(s, v) ==
  /\ tick.pc = "idle"
  /\ SetHeap(setPriority(Fresh, s, v))
  /\ lastOp' = [name |-> "setPriority", system |-> s, value |-> v,
                holders |-> Holders(s)]
  /\ since' = [since EXCEPT !.written = @ \cup Holders(s)]
  /\ UNCHANGED <<tick, snapshot, blueprintVars>>
  /\ Heard(1)

\* Engine.update(delta) up to the loop: the conditional sort
UpdateBegin(e) ==
  /\ tick.pc = "idle"
  /\ SetHeap(updateSort(Fresh, e))
  /\ tick' = [pc |-> "loop", engine |-> e, index |-> 0, quiet |-> TRUE,
              written |-> e \in since.written,
              changed |-> e \in since.changed,
              sorted |-> _systemsNeedSorting[e]]
  /\ lastOp' = [name |-> "update", engine |-> e]
  /\ since' = [written |-> since.written \ {e}, changed |-> since.changed \ {e}]
  /\ UNCHANGED <<snapshot, blueprintVars>>
  /\ Heard(1)

\* one turn of `for (let system of this._systems) system.update(this, delta)`:
\* the array iterator yields _systems[index] and advances, the body runs
UpdateStep(e, b) ==
  /\ tick.pc = "loop" /\ tick.engine = e
  /\ tick.index < Len(_systems[e])
  /\ LET s == _systems[e][tick.index + 1]
     IN  SetHeap(systemUpdate(called(Heap, "update", s, e), e, s, b))
  /\ tick' = [tick EXCEPT !.index = @ + 1,
                          !.quiet = @ /\ b.kind = "none"]
  /\ since' = CASE b.kind = "setPriority" ->
                     [since EXCEPT !.written = @ \cup Holders(b.system)]
                 [] b.kind \in {"addSystem", "removeSystem"} ->
                     [since EXCEPT !.changed = @ \cup {e}]
                 [] OTHER -> since
  /\ UNCHANGED <<lastOp, snapshot, blueprintVars>>
  /\ Heard(Len(calls) + 1)

\* the same turn for a System whose update first reads the engine and then
\* acts as b.  tick.seen is what it read, tick.was what the calls made by
\* the Systems invoked before it in this tick amount to (on the state at the
\* start of the loop), tick.expect the same including its own call, and
\* tick.begin the Entities at the start of the loop.
UpdateStepObserving(e, b) ==
  /\ tick.pc = "loop" /\ tick.engine = e
  /\ tick.index < Len(_systems[e])
  /\ LET s == _systems[e][tick.index + 1]
         h == called(Heap, "update", s, e)
         seen == observe(h, e)
         was == IF tick.index = 0 THEN seen ELSE tick.expect
     IN  /\ SetHeap(systemUpdate(h, e, s, b))
         /\ tick' = [pc |-> "loop", engine |-> e, index |-> tick.index + 1,
                     quiet |-> tick.quiet /\ b.kind = "none",
                     written |-> tick.written, changed |-> tick.changed,
                     sorted |-> tick.sorted,
                     begin |-> IF tick.index = 0 THEN seen.entities
                               ELSE tick.begin,
                     seen |-> seen, was |-> was,
                     expect |-> effect(was, b)]
  /\ since' = CASE b.kind = "setPriority" ->
                     [since EXCEPT !.written = @ \cup Holders(b.system)]
                 [] b.kind \in {"addSystem", "removeSystem"} ->
                     [since EXCEPT !.changed = @ \cup {e}]
                 [] OTHER -> since
  /\ UNCHANGED <<lastOp, snapshot, blueprintVars>>
  /\ Heard(Len(calls) + 1)

\* the iterator is exhausted: update returns
UpdateEnd(e) ==
  /\ tick.pc = "loop" /\ tick.engine = e
  /\ tick.index >= Len(_systems[e])
  /\ tick' = IdleTick
  /\ UNCHANGED <<_entities, _entityListeners, _systems, _systemsNeedSorting,
                 _priority, _engines, calls, lastOp, since, snapshot, heard,
                 blueprintVars>>

AddEntity(e, n) ==
  /\ tick.pc = "idle"
  /\ SetHeap(addEntity(Fresh, e, n))
  /\ lastOp' = [name |-> "addEntity", engine |-> e, entity |-> n,
                present |-> n \in Range(_entities[e])]
  /\ UNCHANGED <<tick, since, snapshot, blueprintVars>>
  /\ Heard(1)

RemoveEntity(e, n) ==
  /\ tick.pc = "idle"
  /\ SetHeap(removeEntity(Fresh, e, n))
  /\ lastOp' = [name |-> "removeEntity", engine |-> e, entity |-> n,
                present |-> n \in Range(_entities[e])]
  /\ UNCHANGED <<tick, since, snapshot, blueprintVars>>
  /\ Heard(1)

AddEntities(e, ns) ==
  /\ tick.pc = "idle"
  /\ SetHeap(addEntities(Fresh, e, ns))
  /\ lastOp' = [name |-> "addEntities", engine |-> e, entities |-> ns,
                before |-> Range(_entities[e])]
  /\ UNCHANGED <<tick, since, snapshot, blueprintVars>>
  /\ Heard(1)

RemoveEntities(e, ns) ==
  /\ tick.pc = "idle"
  /\ SetHeap(removeEntities(Fresh, e, ns))
  /\ lastOp' = [name |-> "removeEntities", engine |-> e, entities |-> ns,
                before |-> Range(_entities[e])]
  /\ UNCHANGED <<tick, since, snapshot, blueprintVars>>
  /\ Heard(1)

AddEntityListener(e, l) ==
  /\ tick.pc = "idle"
  /\ SetHeap(addEntityListener(Fresh, e, l))
  /\ lastOp' = [name |-> "addEntityListener", engine |-> e, listener |-> l,
                present |-> l \in Range(_entityListeners[e])]
  /\ UNCHANGED <<tick, since, snapshot, blueprintVars>>
  /\ heard' = IF e = AppEngine /\ l = AListener
                 /\ l \notin Range(_entityListeners[e])
              THEN [Deaf EXCEPT !.tracked = (_entities[e] = <<>>)]
              ELSE heard

RemoveEntityListener(e, l) ==
  /\ tick.pc = "idle"
  /\ SetHeap(removeEntityListener(Fresh, e, l))
  /\ lastOp' = [name |-> "removeEntityListener", engine |-> e, listener |-> l,
                present |-> l \in Range(_entityListeners[e])]
  /\ UNCHANGED <<tick, since, snapshot, blueprintVars>>
  /\ heard' = IF e = AppEngine /\ l = AListener THEN Deaf ELSE heard

\* a caller reads engine.entities and keeps the returned array; atRead
\* remembers the engine's entity list at that moment
ReadEntities(e) ==
  /\ tick.pc = "idle"
  /\ snapshot' = [read |-> TRUE, array |-> entities(Heap, e),
                  atRead |-> _entities[e]]
  /\ SetHeap(Fresh)
  /\ lastOp' = [name |-> "entities", engine |-> e]
  /\ UNCHANGED <<tick, since, blueprintVars>>
  /\ Heard(1)

AddBlueprint(e, b) ==
  /\ tick.pc = "idle"
  /\ _blueprints' = [_blueprints EXCEPT ![e] = addBlueprint(@, b)]
  /\ lastOp' = [name |-> "addBlueprint", engine |-> e, blueprint |-> b]
  /\ SetHeap(Fresh)
  /\ UNCHANGED <<tick, since, snapshot, blueprintTypes, entityFactory,
                 result>>
  /\ Heard(1)

AddBlueprints(e, bs) ==
  /\ tick.pc = "idle"
  /\ _blueprints' = [_blueprints EXCEPT ![e] = addBlueprints(@, bs)]
  /\ lastOp' = [name |-> "addBlueprints", engine |-> e, blueprints |-> bs]
  /\ SetHeap(Fresh)
  /\ UNCHANGED <<tick, since, snapshot, blueprintTypes, entityFactory,
                 result>>
  /\ Heard(1)

Start(e) ==
  /\ tick.pc = "idle"
  /\ entityFactory' = [entityFactory EXCEPT ![e] = start(_blueprints, e)]
  /\ lastOp' = [name |-> "start", engine |-> e]
  /\ SetHeap(Fresh)
  /\ UNCHANGED <<tick, since, snapshot, _blueprints, blueprintTypes,
                 result>>
  /\ Heard(1)

BuildEntity(e, key) ==
  /\ tick.pc = "idle"
  /\ result' = buildEntity(blueprintTypes[e], entityFactory[e], key)
  /\ lastOp' = [name |-> "buildEntity", engine |-> e, key |-> key]
  /\ SetHeap(Fresh)
  /\ UNCHANGED <<tick, since, snapshot, _blueprints, blueprintTypes,
                 entityFactory>>
  /\ Heard(1)

\* engine.notifyPriorityChange(system), called directly
NotifyPriorityChange(e, s) ==
  /\ tick.pc = "idle"
  /\ SetHeap(notifyPriorityChange(Fresh, e, s))
  /\ lastOp' = [name |-> "notifyPriorityChange", engine |-> e, system |-> s,
                attached |-> s \in Range(_systems[e])]
  /\ UNCHANGED <<tick, since, snapshot, blueprintVars>>
  /\ Heard(1)

\* a System whose update touches neither the engine nor a priority
Passive == {[kind |-> "none"]}

\* Several Engines sharing the Systems; the Systems' updates are passive.
NextSystems ==
  \/ \E e \in Engines, s \in Systems : AddSystem(e, s)
  \/ \E e \in Engines, s \in Systems : RemoveSystem(e, s)
  \/ \E s \in Systems, v \in Priorities : SetPriority(s, v)
  \/ \E e \in Engines : UpdateBegin(e)
  \/ \E e \in Engines, b \in Passive : UpdateStep(e, b)
  \/ \E e \in Engines : UpdateEnd(e)

SpecSystems == Init /\ [][NextSystems]_vars

\* One Engine whose Systems call back into it during their update.
NextTick ==
  \/ \E s \in Systems : AddSystem(AppEngine, s)
  \/ \E s \in Systems : RemoveSystem(AppEngine, s)
  \/ \E s \in Systems, v \in Priorities : SetPriority(s, v)
  \/ UpdateBegin(AppEngine)
  \/ \E b \in Behaviours : UpdateStep(AppEngine, b)
  \/ UpdateEnd(AppEngine)

SpecTick == Init /\ [][NextTick]_vars

\* the listeners registered while Entities come and go: all but the last
Subscribers == 1..(NumListeners - 1)

\* One Engine, its entities, its listeners and readers of `entities`.
NextEntities ==
  \/ \E n \in Entities : AddEntity(AppEngine, n)
  \/ \E n \in Entities : RemoveEntity(AppEngine, n)
  \/ \E ns \in Batches(Entities) : AddEntities(AppEngine, ns)
  \/ \E ns \in Batches(Entities) : RemoveEntities(AppEngine, ns)
  \/ \E l \in Subscribers : AddEntityListener(AppEngine, l)
  \/ \E l \in Subscribers : RemoveEntityListener(AppEngine, l)

SpecEntities == Init /\ [][NextEntities]_vars

\* One Engine, its entities, and a caller that keeps what `entities` returned.
NextSnapshot ==
  \/ \E n \in Entities : AddEntity(AppEngine, n)
  \/ \E n \in Entities : RemoveEntity(AppEngine, n)
  \/ ReadEntities(AppEngine)

SpecSnapshot == Init /\ [][NextSnapshot]_vars

\* Several Engines sharing the Systems: only attaching and detaching.
NextAttach ==
  \/ \E e \in Engines, s \in Systems : AddSystem(e, s)
  \/ \E e \in Engines, s \in Systems : RemoveSystem(e, s)
  \/ \E e \in Engines, ss \in Batches(Systems) : AddSystems(e, ss)
  \/ \E e \in Engines, ss \in Batches(Systems) : RemoveSystems(e, ss)

SpecAttach == Init /\ [][NextAttach]_vars

\* One Engine, its blueprint registry, start and buildEntity.
NextBlueprints ==
  \/ \E b \in Blueprints : AddBlueprint(AppEngine, b)
  \/ \E bs \in Batches(Blueprints) : AddBlueprints(AppEngine, bs)
  \/ Start(AppEngine)
  \/ \E key \in Keys : BuildEntity(AppEngine, key)

SpecBlueprints == InitBlueprints /\ [][NextBlueprints]_vars

\* the calls of the Systems that read the engine: any of the above, the
\* priority written being the largest one
ObservingBehaviours ==
  {b \in Behaviours : b.kind = "setPriority" => b.value = MaxPriority}
  \cup EntityBehaviours

\* One Engine whose Systems read it and then call back into it.
NextVisible ==
  \/ \E s \in Systems : AddSystem(AppEngine, s)
  \/ UpdateBegin(AppEngine)
  \/ \E b \in ObservingBehaviours : UpdateStepObserving(AppEngine, b)
  \/ UpdateEnd(AppEngine)

SpecVisible == Init /\ [][NextVisible]_vars

\* One Engine with something in each of its lists, whose
\* notifyPriorityChange is called directly.
NextNotify ==
  \/ \E s \in Systems : AddSystem(AppEngine, s)
  \/ \E s \in Systems : RemoveSystem(AppEngine, s)
  \/ \E s \in Systems, v \in Priorities : SetPriority(s, v)
  \/ \E s \in Systems : NotifyPriorityChange(AppEngine, s)
  \/ AddEntity(AppEngine, AnEntity)
  \/ AddEntityListener(AppEngine, AListener)
  \/ AddBlueprint(AppEngine, ABlueprint)
  \/ UpdateBegin(AppEngine)
  \/ \E b \in Passive : UpdateStep(AppEngine, b)
  \/ UpdateEnd(AppEngine)

SpecNotify == Init /\ [][NextNotify]_vars

\* One Engine whose listeners register and deregister in any order while
\* an Entity comes and goes.
NextListeners ==
  \/ \E l \in Listeners : AddEntityListener(AppEngine, l)
  \/ \E l \in Listeners : RemoveEntityListener(AppEngine, l)
  \/ AddEntity(AppEngine, AnEntity)
  \/ RemoveEntity(AppEngine, AnEntity)

SpecListeners == Init /\ [][NextListeners]_vars

Next ==
  NextListeners \/ NextNotify \/ NextVisible \/ NextSystems \/ NextTick \/ NextEntities \/ NextSnapshot \/ NextAttach
  \/ NextBlueprints

Spec == InitBlueprints /\ [][Next]_vars

(* ======================= properties ======================= *)

NoDuplicates(seq) == \A i, j \in 1..Len(seq) : i # j => seq[i] # seq[j]

\* the Systems whose update has been invoked by the current/last update
\* call, in invocation order
Invoked ==
  LET ups == SelectSeq(calls, LAMBDA c : c.fn = "update")
  IN  [i \in 1..Len(ups) |-> ups[i].obj]

FirstPos(seq, x) == indexOf(seq, x) + 1

InTick(e) == tick.pc = "loop" /\ tick.engine = e

AscendingByPriority(seq) ==
  \A i, j \in 1..Len(seq) : _priority[seq[i]] < _priority[seq[j]] => i < j

\* the callbacks fn(n) delivered to the listeners ls, one entity after the
\* other in the order of ns, the listeners in the order of ls
RECURSIVE Notifications(_, _, _)
Notifications(ls, fn, ns) ==
  IF ns = <<>> THEN <<>>
  ELSE [i \in 1..Len(ls) |-> [fn |-> fn, obj |-> ls[i], arg |-> Head(ns)]]
       \o Notifications(ls, fn, Tail(ns))

\* the entities of the batch ns on which an add (toAdd) or a remove acts:
\* the first occurrence of each entity absent from (present in) `present`
RECURSIVE Effective(_, _, _)
Effective(ns, present, toAdd) ==
  IF ns = <<>> THEN <<>>
  ELSE IF (Head(ns) \in present) # toAdd
       THEN <<Head(ns)>> \o
            Effective(Tail(ns),
                      IF toAdd THEN present \cup {Head(ns)}
                      ELSE present \ {Head(ns)}, toAdd)
       ELSE Effective(Tail(ns), present, toAdd)

(* C1, as claimed: in every tick, for two Systems attached to the Engine
   with priorities p1 < p2, once the System with p2 has been invoked the
   System with p1 has been invoked before it -- also when Systems add or
   remove Systems or write priorities during the tick. *)
C1_OrderInEveryTick ==
  \A e \in Engines : InTick(e) =>
    \A s1, s2 \in Range(_systems[e]) :
      (_priority[s1] < _priority[s2] /\ s2 \in Range(Invoked)) =>
        /\ s1 \in Range(Invoked)
        /\ FirstPos(Invoked, s1) < FirstPos(Invoked, s2)

(* C1, amended: in a tick during which no System calls addSystem or
   removeSystem or writes a priority, the Systems invoked so far are the
   first `index` Systems of the Engine's list, each once and in list order,
   and the list is in ascending priority order: whatever addSystem,
   removeSystem and priority writes were made before the tick, a System
   with a smaller priority is invoked strictly before one with a larger. *)
C1_OrderInQuietTick ==
  \A e \in Engines : (InTick(e) /\ tick.quiet) =>
    /\ Invoked = SubSeq(_systems[e], 1, tick.index)
    /\ AscendingByPriority(_systems[e])

\* C1 witness: a quiet tick has invoked both Systems, the one added last
\* first, because its priority is the smaller one
C1_Witness ==
  /\ InTick(AppEngine) /\ tick.quiet
  /\ tick.index = Len(_systems[AppEngine])
  /\ Invoked = <<2, 1>>
  /\ _priority[2] < _priority[1]

(* C2: the entity list of an Engine never holds an Entity twice; addEntity
   of an Entity already present changes no field of the heap and invokes no
   callback; addEntity of an absent Entity appends it once and invokes one
   callback per registered listener. *)
C2_NoDuplicateEntities ==
  /\ [](\A e \in Engines : NoDuplicates(_entities[e]))
  /\ [][lastOp'.name = "addEntity" =>
          IF lastOp'.present
          THEN /\ _entities' = _entities
               /\ _entityListeners' = _entityListeners
               /\ calls' = <<>>
          ELSE /\ _entities'[lastOp'.engine] =
                    Append(_entities[lastOp'.engine], lastOp'.entity)
               /\ Len(calls') = Len(_entityListeners[lastOp'.engine])
       ]_vars

\* C2 witness: an Entity that was present has been added again, with a
\* listener registered, and nothing was notified
C2_Witness ==
  /\ lastOp.name = "addEntity" /\ lastOp.present
  /\ _entityListeners[lastOp.engine] # <<>>
  /\ Len(_entities[lastOp.engine]) = 2
  /\ calls = <<>>

(* C3: removeEntity of an Entity that is not in the Engine changes neither
   the entity list, the system list, the listener list nor the sort-needed
   flag, and invokes no callback. *)
C3_RemoveAbsentIsNoOp ==
  [][(lastOp'.name = "removeEntity" /\ ~lastOp'.present) =>
       /\ _entities' = _entities
       /\ _systems' = _systems
       /\ _entityListeners' = _entityListeners
       /\ _systemsNeedSorting' = _systemsNeedSorting
       /\ calls' = <<>>
    ]_vars

\* C3 witness: an absent Entity has been removed from an Engine that holds
\* another Entity and has a listener
C3_Witness ==
  /\ lastOp.name = "removeEntity" /\ ~lastOp.present
  /\ _entities[lastOp.engine] # <<>>
  /\ _entityListeners[lastOp.engine] # <<>>
  /\ calls = <<>>

(* C4: the array returned by the `entities` getter keeps the contents the
   Engine's entity list had at the moment of the read, whatever addEntity
   and removeEntity calls follow. *)
C4_SnapshotIsPointInTime ==
  snapshot.read => contents(Heap, snapshot.array) = snapshot.atRead

\* C4 witness: since the read one Entity of the snapshot has been removed
\* from the Engine and another, not in the snapshot, has been added
C4_Witness ==
  /\ snapshot.read
  /\ \E n \in Range(contents(Heap, snapshot.array)) :
       n \notin Range(_entities[snapshot.array.engine])
  /\ \E n \in Range(_entities[snapshot.array.engine]) :
       n \notin Range(contents(Heap, snapshot.array))

(* C5: when a priority of a System held by an Engine has been written since
   the Engine's last update began, the next update takes the sort branch
   before it invokes any System, and (as long as no System changes the list
   or a priority during the tick) invokes the Systems in the list's order,
   which is ascending by the priorities as written. *)
C5_PriorityWriteResorts ==
  \A e \in Engines : (InTick(e) /\ tick.written) =>
    /\ tick.sorted
    /\ tick.quiet =>
         /\ AscendingByPriority(_systems[e])
         /\ Invoked = SubSeq(_systems[e], 1, tick.index)

\* C5 witness: with no addSystem or removeSystem since the previous update,
\* only a priority write, the tick has run the Systems in the new order
C5_Witness ==
  /\ InTick(AppEngine) /\ tick.written /\ ~tick.changed /\ tick.quiet
  /\ tick.sorted
  /\ tick.index = 2 /\ Invoked = <<2, 1>>
  /\ _priority[2] < _priority[1]

(* C6, as claimed: on an Engine constructed with an enumeration and
   started, buildEntity with a key that is not a member of the enumeration
   fails with the invalid-blueprint-type error naming the key (and so does
   not reach the EntityFactory). *)
C6_UnknownKeyFails ==
  \A e \in Engines :
    (/\ lastOp.name = "buildEntity" /\ lastOp.engine = e
     /\ blueprintTypes[e] # Undefined
     /\ entityFactory[e] # Undefined
     /\ lastOp.key \notin DOMAIN blueprintTypes[e].own)
    => result = [kind |-> "throw", error |-> "Invalid blueprint type",
                 key |-> lastOp.key]

(* C7: an addEntity of an absent Entity, and a removeEntity of a present
   one, invokes onEntityAdded / onEntityRemoved once on every listener
   registered at the time of the call, in registration order, and nothing
   else; addEntities / removeEntities do so once per Entity they actually
   add / remove, Entity after Entity. *)
C7_NotificationsInOrder ==
  [][LET op == lastOp'
         ls == _entityListeners[op.engine]
     IN  /\ op.name = "addEntity" =>
              calls' = Notifications(ls, "onEntityAdded",
                         IF op.present THEN <<>> ELSE <<op.entity>>)
         /\ op.name = "removeEntity" =>
              calls' = Notifications(ls, "onEntityRemoved",
                         IF op.present THEN <<op.entity>> ELSE <<>>)
         /\ op.name = "addEntities" =>
              calls' = Notifications(ls, "onEntityAdded",
                         Effective(op.entities, op.before, TRUE))
         /\ op.name = "removeEntities" =>
              calls' = Notifications(ls, "onEntityRemoved",
                         Effective(op.entities, op.before, FALSE))
    ]_vars

\* C7 witness: a batch removed two Entities from an Engine whose listeners
\* were registered in the order 2, 1; each got both notifications
C7_Witness ==
  /\ lastOp.name = "removeEntities"
  /\ _entityListeners[lastOp.engine] = <<2, 1>>
  /\ Len(calls) = 4
  /\ calls[1].obj = 2 /\ calls[2].obj = 1
  /\ calls[1].arg = calls[2].arg /\ calls[3].arg # calls[1].arg

(* C8: addSystem of a System not in the Engine calls its onAttach once and
   sets the sort-needed flag; removeSystem of a System in the Engine calls
   its onDetach once; addSystem of a System already in the Engine and
   removeSystem of an absent one call nothing and change nothing. *)
C8_SystemHooksOncePerChange ==
  [][LET op == lastOp'
     IN  /\ (op.name = "addSystem" /\ ~op.present) =>
              /\ calls' = <<[fn |-> "onAttach", obj |-> op.system,
                             arg |-> op.engine]>>
              /\ _systemsNeedSorting'[op.engine]
         /\ (op.name = "removeSystem" /\ op.present) =>
              calls' = <<[fn |-> "onDetach", obj |-> op.system,
                          arg |-> op.engine]>>
         /\ (op.name \in {"addSystem", "removeSystem"}
             /\ op.present = (op.name = "addSystem")) =>
              /\ calls' = <<>>
              /\ _systems' = _systems
              /\ _engines' = _engines
              /\ _systemsNeedSorting' = _systemsNeedSorting
              /\ _priority' = _priority
    ]_vars

\* C8 witness: a System already in the Engine was added again after an
\* update had cleared the flag; no hook ran and the flag is still clear
C8_Witness ==
  /\ lastOp.name = "addSystem" /\ lastOp.present
  /\ calls = <<>>
  /\ ~_systemsNeedSorting[lastOp.engine]
  /\ Len(_systems[lastOp.engine]) = 2

(* C9: an Engine is in a System's list of attached engines exactly when the
   System is in the Engine's system list, and neither list holds an element
   twice. *)
C9_AttachmentMatchesMembership ==
  /\ \A e \in Engines, s \in Systems :
       (e \in Range(_engines[s])) <=> (s \in Range(_systems[e]))
  /\ \A e \in Engines : NoDuplicates(_systems[e])
  /\ \A s \in Systems : NoDuplicates(_engines[s])

\* C9 witness: a System attached to two Engines has been removed from the
\* one it was attached to first and is still in the other
C9_Witness ==
  /\ lastOp.name \in {"removeSystem", "removeSystems"}
  /\ lastOp.engine = 1
  /\ \E s \in Systems : _engines[s] = <<2>> /\ s \in Range(_systems[2])
                        /\ calls # <<>> /\ calls[1].obj = s
  /\ _systems[1] # <<>>

(* C10: a priority write sets the sort-needed flag of every Engine that
   holds the System and leaves the flag of every other Engine as it was. *)
C10_PriorityWriteFlagsHolders ==
  [][lastOp'.name = "setPriority" =>
       \A e \in Engines :
         _systemsNeedSorting'[e] =
           (_systemsNeedSorting[e] \/ e \in Holders(lastOp'.system))
    ]_vars

\* C10 witness: the priority of a System held by Engine 1 only has been
\* written; Engine 1's flag is set and the flag of Engine 2, which holds
\* another System, is clear
C10_Witness ==
  /\ lastOp.name = "setPriority"
  /\ lastOp.holders = {1}
  /\ _systems[2] # <<>>
  /\ _systemsNeedSorting[1] /\ ~_systemsNeedSorting[2]

\* seq is ordered ascending by prio
Ascending(seq, prio) ==
  \A i, j \in 1..Len(seq) : i < j => prio[seq[i]] <= prio[seq[j]]

\* new holds the elements of old, each as often as old does
IsPermutation(old, new) ==
  /\ Len(old) = Len(new)
  /\ \A x \in Range(old) \cup Range(new) :
       Cardinality({i \in 1..Len(old) : old[i] = x})
         = Cardinality({i \in 1..Len(new) : new[i] = x})

\* elements of equal prio are in new in the relative order they have in old
KeepsTies(old, new, prio) ==
  \A a, b \in Range(old) :
    (prio[a] = prio[b] /\ FirstPos(old, a) < FirstPos(old, b))
      => FirstPos(new, a) < FirstPos(new, b)

(* C11: when update is called with the sort-needed flag set, the System
   list becomes a permutation of itself in ascending priority order in which
   Systems of equal priority keep their relative order, and the flag is
   cleared; when update is called with the flag clear, the sort step leaves
   the list (and the flag) as they are.  The step observed is the one from
   the call of update to the start of its loop. *)
C11_UpdateSortsStably ==
  [][(tick.pc = "idle" /\ tick'.pc = "loop") =>
       LET e == tick'.engine
       IN  IF _systemsNeedSorting[e]
           THEN /\ IsPermutation(_systems[e], _systems'[e])
                /\ Ascending(_systems'[e], _priority)
                /\ KeepsTies(_systems[e], _systems'[e], _priority)
                /\ ~_systemsNeedSorting'[e]
                /\ _priority' = _priority
           ELSE /\ _systems'[e] = _systems[e]
                /\ ~_systemsNeedSorting'[e]
    ]_vars

\* C11 witness: an update has sorted a list of two Systems of equal
\* priority, the System numbered higher having been added first, and has
\* not yet invoked any; the list kept the order of insertion
C11_Witness ==
  /\ InTick(AppEngine) /\ tick.sorted /\ tick.index = 0
  /\ _systems[AppEngine] = <<2, 1>>
  /\ _priority[1] = _priority[2]
  /\ ~_systemsNeedSorting[AppEngine]

(* C12: notifyPriorityChange(system) sets the sort-needed flag of the
   Engine and changes nothing else -- the system list (order and
   membership), the entity list, the listener list, the blueprint registry,
   the priorities and the Systems' engine lists are as before, and no
   callback is invoked -- whether or not the System is in the Engine. *)
C12_NotifyOnlySetsFlag ==
  [][lastOp'.name = "notifyPriorityChange" =>
       /\ _systemsNeedSorting' =
            [_systemsNeedSorting EXCEPT ![lastOp'.engine] = TRUE]
       /\ _systems' = _systems
       /\ _entities' = _entities
       /\ _entityListeners' = _entityListeners
       /\ _blueprints' = _blueprints
       /\ _priority' = _priority
       /\ _engines' = _engines
       /\ entityFactory' = entityFactory
       /\ calls' = <<>>
    ]_vars

\* C12 witness: notifyPriorityChange was called for a System that is not in
\* the Engine, whose flag an update had cleared; the Engine holds an Entity,
\* a listener and a Blueprint, the System list is not empty, and the flag is
\* now set
C12_Witness ==
  /\ lastOp.name = "notifyPriorityChange" /\ ~lastOp.attached
  /\ _systemsNeedSorting[lastOp.engine]
  /\ Len(_systems[lastOp.engine]) = 1
  /\ since.changed = {} /\ since.written = {}
  /\ _entities[lastOp.engine] # <<>>
  /\ _entityListeners[lastOp.engine] # <<>>
  /\ _blueprints[lastOp.engine] # <<>>

(* C13: a call made by a System during its update (addEntity, removeEntity,
   addSystem, removeSystem, a priority write) takes effect at once: what a
   System invoked later in the same tick reads of the Engine (its entities,
   the Systems' priorities, the Systems attached to it) is the state at the
   start of the loop with the calls of all Systems invoked before it
   applied. *)
C13_LaterSystemsSeeMutations ==
  \A e \in Engines : (InTick(e) /\ tick.index > 0) => tick.seen = tick.was

\* C13 witness: the System invoked second in a tick has read an Entity that
\* was not in the Engine when the loop started
C13_Witness ==
  /\ InTick(AppEngine) /\ tick.index = 2
  /\ tick.seen.entities \ tick.begin # {}

(* C14: the EntityFactory built by start resolves from exactly the
   Blueprints registered when start was called: addBlueprint and
   addBlueprints after start leave the factory's collection as it was, and
   only another start brings it up to date. *)
C14_FactorySeesBlueprintsAtStart ==
  [][\A e \in Engines :
       /\ (lastOp'.name = "start" /\ lastOp'.engine = e) =>
            resolvesFrom(entityFactory'[e]) = _blueprints[e]
       /\ (lastOp'.name # "start" /\ entityFactory[e] # Undefined) =>
            /\ entityFactory'[e] # Undefined
            /\ resolvesFrom(entityFactory'[e]) = resolvesFrom(entityFactory[e])
    ]_vars

\* C14 witness: a Blueprint was registered after start; the registry holds
\* it and the factory, built over one Blueprint, does not
C14_Witness ==
  /\ lastOp.name \in {"addBlueprint", "addBlueprints"}
  /\ entityFactory[lastOp.engine] # Undefined
  /\ Len(resolvesFrom(entityFactory[lastOp.engine])) = 1
  /\ \E b \in Range(_blueprints[lastOp.engine]) :
       b \notin Range(resolvesFrom(entityFactory[lastOp.engine]))

(* C15: the listener list never holds a listener twice; addEntityListener
   appends a listener that is absent and changes nothing when it is
   present; removeEntityListener changes nothing when the listener is
   absent and otherwise takes it out, the other listeners keeping their
   registration order; neither touches the entity list or invokes a
   callback. *)
C15_ListenerOpsIdempotent ==
  /\ [](\A e \in Engines : NoDuplicates(_entityListeners[e]))
  /\ [][LET op == lastOp'
            old == _entityListeners[op.engine]
            new == _entityListeners'[op.engine]
        IN  /\ op.name = "addEntityListener" =>
                 /\ new = IF op.listener \in Range(old) THEN old
                          ELSE Append(old, op.listener)
                 /\ _entities' = _entities /\ calls' = <<>>
            /\ op.name = "removeEntityListener" =>
                 /\ new = SelectSeq(old, LAMBDA x : x # op.listener)
                 /\ op.listener \notin Range(old) => new = old
                 /\ _entities' = _entities /\ calls' = <<>>
       ]_vars

\* C15 witness: of three listeners registered in the order 3, 2, 1 the one
\* in the middle has been removed; the others are still in that order
C15_Witness ==
  /\ lastOp.name = "removeEntityListener" /\ lastOp.present
  /\ lastOp.listener = 2
  /\ _entityListeners[lastOp.engine] = <<3, 1>>

\* the attach and detach hooks of System s run for Engine e by the current
\* update call, in order
Hooks(e, s) ==
  SelectSeq(calls, LAMBDA c : /\ c.obj = s /\ c.arg = e
                              /\ c.fn \in {"onAttach", "onDetach"})

\* the Systems that were in Engine e's list when the current tick's loop
\* began: those whose first hook of the tick is a detach, and those without
\* a hook that are in the list
AtTickBegin(e) ==
  {s \in Systems : IF Hooks(e, s) = <<>> THEN s \in Range(_systems[e])
                   ELSE Hooks(e, s)[1].fn = "onDetach"}

\* the Systems removed from Engine e during the current tick
RemovedInTick(e) ==
  {s \in Systems : \E i \in 1..Len(Hooks(e, s)) : Hooks(e, s)[i].fn = "onDetach"}

TimesInvoked(s) == Cardinality({i \in 1..Len(Invoked) : Invoked[i] = s})

(* C16, as claimed: when the loop of update is over, every System that was
   in the Engine's list when the tick began and was not itself removed
   during the tick has been invoked exactly once, whatever addSystem and
   removeSystem calls the Systems made from their update. *)
C16_EverySystemInvokedOnce ==
  \A e \in Engines :
    (InTick(e) /\ tick.index >= Len(_systems[e])) =>
      \A s \in AtTickBegin(e) \ RemovedInTick(e) : TimesInvoked(s) = 1

\* the member names of an enumeration object: its own keys, apart from the
\* reverse mappings ("0" -> "Renderable") of a numeric enumeration
Members(enum) ==
  {k \in DOMAIN enum.own :
     ~(/\ enum.own[k].t = "string"
       /\ enum.own[k].v \in DOMAIN enum.own
       /\ enum.own[enum.own[k].v].t = "number")}

\* the blueprint name a member stands for: its string value, or its own
\* name when the enumeration is numeric
CanonicalName(enum, k) ==
  IF enum.own[k].t = "string" THEN enum.own[k].v ELSE k

(* C17, as claimed: on a started Engine constructed with an enumeration,
   buildEntity with a key that is a member of the enumeration does not fail,
   whatever value the enumeration maps the key to, and hands the
   EntityFactory the canonical blueprint name of the key; on a started
   Engine constructed without an enumeration the key is handed on
   unchanged. *)
C17_MemberKeysAccepted ==
  \A e \in Engines :
    (/\ lastOp.name = "buildEntity" /\ lastOp.engine = e
     /\ entityFactory[e] # Undefined)
    => IF blueprintTypes[e] = Undefined
       THEN result = [kind |-> "delegated", type |-> Str(lastOp.key)]
       ELSE lastOp.key \in Members(blueprintTypes[e]) =>
              result = [kind |-> "delegated",
                        type |-> Str(CanonicalName(blueprintTypes[e],
                                                   lastOp.key))]

(* C18: between top-level operations (no update in progress), an Engine
   whose sort-needed flag is false has its System list in ascending order of
   the current priorities -- after any sequence of addSystem, removeSystem,
   priority writes (to attached or unattached Systems, from outside or from
   inside a System's update) and updates. *)
C18_FlagClearImpliesSorted ==
  \A e \in Engines :
    (tick.pc = "idle" /\ ~_systemsNeedSorting[e]) =>
      Ascending(_systems[e], _priority)

\* C18 witness: an update has returned, the flag is clear, and the System
\* added second stands first because its priority is the smaller one
C18_Witness ==
  /\ tick.pc = "idle" /\ lastOp.name = "update"
  /\ ~_systemsNeedSorting[AppEngine]
  /\ _systems[AppEngine] = <<2, 1>>
  /\ _priority[2] < _priority[1]
  /\ Invoked = <<2, 1>>

(* C19: for a listener registered on the Engine while it held no Entity and
   not deregistered since (its callbacks not calling the Engine), after
   every addEntity, addEntities, removeEntity and removeEntities call the
   Entities it was told were added and not since told were removed are
   exactly the Engine's Entities, and for each Entity the notifications it
   got alternate added, removed, added, ..., beginning with added. *)
C19_ListenerMirrorsEntities ==
  heard.tracked =>
    /\ heard.live = Range(_entities[AppEngine])
    /\ heard.ok

\* C19 witness: the listener followed has just been told of the removal of
\* an Entity by a batch call, and another Entity it was told of remains
C19_Witness ==
  /\ heard.tracked
  /\ lastOp.name = "removeEntities"
  /\ \E i \in 1..Len(calls) :
       calls[i].fn = "onEntityRemoved" /\ calls[i].obj = AListener
  /\ heard.live # {}
  /\ Len(_entityListeners[AppEngine]) = 2

====
